---- MODULE Spec2Model ----
(***************************************************************************)
(* A model of the cef-ui binding layer: reference-counted Smart Pointers   *)
(* over foreign handles, the Callback Adapters that attach a boxed native  *)
(* trait object to a foreign operation table (RenderProcessHandler,        *)
(* V8Handler), and the typed value facade (V8Context, V8Value).            *)
(*                                                                         *)
(* Eight specifications share the module:                                  *)
(*   Spec        several adapter handles side by side: construction, drop, *)
(*               hand-off, foreign release and the trampolines;            *)
(*   SpecRc      the whole life of one handle: clone, drop, hand-off,      *)
(*               foreign add-ref and release, foreign calls;               *)
(*   SpecFacade  every V8Context / V8Value accessor over a foreign engine; *)
(*   SpecObject  the global object written, read back and compared;        *)
(*   SpecValue   values made by the constructors and read back;            *)
(*   SpecThreads one adapter handle shared by several threads;             *)
(*   SpecArgs    handle arguments under either convention of the engine;  *)
(*   SpecFunction a handler given to create_function and called back.      *)
(***************************************************************************)
EXTENDS Integers, Sequences, FiniteSets, TLC

\* ------------------------------------------------------------------ bounds
NumHandles == 2
NumDelegates == 2
MaxClones == 2
MaxStart == 1
MaxHeld == 2
MaxArgRc == 2
NumValues == 3
MaxOwn == 3
MaxHeldV == 1
MaxDepth == 2
MaxLive == 2
NumThreads == 2
MaxRefs == 3
MaxNest == 2

\* The null pointer.
NULL == 0

Handles == 1..NumHandles
Delegates == 1..NumDelegates

AdapterKinds == {"RenderProcessHandler", "V8Handler"}
ForeignKinds == {"V8Value", "V8Context"}
Kinds == AdapterKinds \cup ForeignKinds

\* The slots of cef_render_process_handler_t, in the order wrap() fills them.
RphSlots ==
    {"on_web_kit_initialized", "on_browser_created", "on_browser_destroyed",
     "get_load_handler", "on_context_created", "on_context_released",
     "on_uncaught_exception", "on_focused_node_changed",
     "on_process_message_received"}

\* The methods of the trait RenderProcessHandlerCallbacks.
RphTraitMethods ==
    {"on_web_kit_initialized", "on_browser_created", "on_browser_destroyed",
     "on_context_created"}

\* RenderProcessHandlerWrapper::wrap: the slots set to Some(trampoline); the
\* others are None.
RphWrapTable ==
    {"on_web_kit_initialized", "on_browser_created", "on_context_created"}

\* V8HandlerWrapper::wrap: the one slot, execute, is Some(Self::execute).
V8HandlerWrapTable == {"execute"}

\* ------------------------------------------------------------------- state
VARIABLES
    kind,       \* [Handles -> Kinds \cup {"none"}]: "none" before the handle exists
    rc,         \* the handle's embedded reference count
    ptrs,       \* live native Smart Pointers to the handle
    held,       \* references the foreign side holds
    start,      \* the count the other holders had when the original was made
    clones,     \* clone() calls made on Smart Pointers to the handle
    drops,      \* Smart Pointers to the handle dropped
    freed,      \* the handle has been released (count reached zero)
    slot,       \* the embedded native-object pointer: a delegate, or NULL
    wrappedD,   \* the delegate passed to the new() that produced the handle
    box,        \* [Delegates -> {"unboxed", "boxed", "destroyed"}]
    destroys,   \* [Delegates -> Nat]: times the boxed trait object was destroyed
    last,       \* the last foreign -> native call
    crashed     \* the process aborted, or unwound across the C boundary

avars == <<kind, rc, ptrs, held, start, clones, drops, freed, slot, wrappedD,
           box, destroys, last, crashed>>

NoCall ==
    [h |-> NULL, ev |-> "none", target |-> NULL, live |-> TRUE,
     result |-> "none", ret |-> "void", args |-> <<>>]

AdapterInit ==
    /\ kind = [h \in Handles |-> "none"]
    /\ rc = [h \in Handles |-> 0]
    /\ ptrs = [h \in Handles |-> 0]
    /\ held = [h \in Handles |-> 0]
    /\ start = [h \in Handles |-> 0]
    /\ clones = [h \in Handles |-> 0]
    /\ drops = [h \in Handles |-> 0]
    /\ freed = [h \in Handles |-> FALSE]
    /\ slot = [h \in Handles |-> NULL]
    /\ wrappedD = [h \in Handles |-> NULL]
    /\ box = [d \in Delegates |-> "unboxed"]
    /\ destroys = [d \in Delegates |-> 0]
    /\ last = NoCall
    /\ crashed = FALSE

\* The address the allocator gives the next handle: the lowest one not yet used.
IsFresh(h) == kind[h] = "none" /\ \A g \in Handles : g < h => kind[g] # "none"

\* ------------------------------------------------- Smart Pointer machinery

\* RefCountedPtr::wrap(cef, wrappable): allocates the handle, embeds the
\* wrappable beside the operation table and returns the Smart Pointer that owns
\* the handle's first and only reference.
RefCountedPtrWrap(h, k, d) ==
    /\ IsFresh(h)
    /\ kind' = [kind EXCEPT ![h] = k]
    /\ rc' = [rc EXCEPT ![h] = 1]
    /\ ptrs' = [ptrs EXCEPT ![h] = 1]
    /\ slot' = [slot EXCEPT ![h] = d]
    /\ UNCHANGED <<held, start, clones, drops, freed>>

\* The handle's release operation: decrements the embedded count and, when it
\* reaches zero, frees the handle together with the wrappable it embeds.
BaseRelease(h) ==
    LET zero == rc[h] - 1 = 0
        d == slot[h]
    IN  /\ rc' = [rc EXCEPT ![h] = @ - 1]
        /\ freed' = [freed EXCEPT ![h] = @ \/ zero]
        /\ box' = IF zero /\ d # NULL
                  THEN [box EXCEPT ![d] = "destroyed"] ELSE box
        /\ destroys' = IF zero /\ d # NULL
                       THEN [destroys EXCEPT ![d] = @ + 1] ELSE destroys

\* The handle's add_ref operation.
BaseAddRef(h) == rc' = [rc EXCEPT ![h] = @ + 1]

\* A wrapper generated by ref_counted_ptr! taking over a handle the foreign
\* side created and hands over with one reference for the caller (as
\* create_int, get_global, get_current_context do): no increment is made.
\* n is the number of references other holders have on the handle.
FromPtrUnchecked(h, k, n) ==
    /\ ~crashed
    /\ IsFresh(h)
    /\ kind' = [kind EXCEPT ![h] = k]
    /\ rc' = [rc EXCEPT ![h] = n + 1]
    /\ ptrs' = [ptrs EXCEPT ![h] = 1]
    /\ held' = [held EXCEPT ![h] = n]
    /\ start' = [start EXCEPT ![h] = n]
    /\ UNCHANGED <<clones, drops, freed, slot, wrappedD, box, destroys, last,
                   crashed>>

\* Clone of a Smart Pointer: add_ref on the handle, one more Smart Pointer.
Clone(h) ==
    /\ ~crashed
    /\ ptrs[h] > 0
    /\ clones[h] < MaxClones
    /\ BaseAddRef(h)
    /\ ptrs' = [ptrs EXCEPT ![h] = @ + 1]
    /\ clones' = [clones EXCEPT ![h] = @ + 1]
    /\ UNCHANGED <<kind, held, start, drops, freed, slot, wrappedD, box,
                   destroys, last, crashed>>

\* Drop of a Smart Pointer: release on the handle.
Drop(h) ==
    /\ ~crashed
    /\ ptrs[h] > 0
    /\ BaseRelease(h)
    /\ ptrs' = [ptrs EXCEPT ![h] = @ - 1]
    /\ drops' = [drops EXCEPT ![h] = @ + 1]
    /\ UNCHANGED <<kind, held, start, clones, slot, wrappedD, last, crashed>>

\* into_raw(): the Smart Pointer is consumed without a decrement and its
\* reference now belongs to the foreign side it is handed to.
IntoRaw(h) ==
    /\ ~crashed
    /\ ptrs[h] > 0
    /\ ptrs' = [ptrs EXCEPT ![h] = @ - 1]
    /\ held' = [held EXCEPT ![h] = @ + 1]
    /\ UNCHANGED <<kind, rc, start, clones, drops, freed, slot, wrappedD, box,
                   destroys, last, crashed>>

\* The foreign side takes another reference on a handle it holds.
ForeignAddRef(h) ==
    /\ ~crashed
    /\ held[h] > 0
    /\ held[h] < MaxHeld
    /\ BaseAddRef(h)
    /\ held' = [held EXCEPT ![h] = @ + 1]
    /\ UNCHANGED <<kind, ptrs, start, clones, drops, freed, slot, wrappedD, box,
                   destroys, last, crashed>>

\* The foreign side gives up one of its references.
ForeignRelease(h) ==
    /\ ~crashed
    /\ held[h] > 0
    /\ BaseRelease(h)
    /\ held' = [held EXCEPT ![h] = @ - 1]
    /\ UNCHANGED <<kind, ptrs, start, clones, drops, slot, wrappedD, last,
                   crashed>>

\* ------------------------------------------------------- Callback Adapters

\* A new() that takes a second reference on the handle wrap() returned, a
\* reference no Smart Pointer gives back.
RenderProcessHandlerNewAddsRef(h, d) ==
    /\ ~crashed
    /\ box[d] = "unboxed"
    /\ box' = [box EXCEPT ![d] = "boxed"]
    /\ IsFresh(h)
    /\ kind' = [kind EXCEPT ![h] = "RenderProcessHandler"]
    /\ rc' = [rc EXCEPT ![h] = 2]
    /\ ptrs' = [ptrs EXCEPT ![h] = 1]
    /\ slot' = [slot EXCEPT ![h] = d]
    /\ wrappedD' = [wrappedD EXCEPT ![h] = d]
    /\ UNCHANGED <<held, start, clones, drops, freed, destroys, last, crashed>>

\* RenderProcessHandler::new(delegate): the delegate is boxed
\* (RenderProcessHandlerWrapper::new) and the wrapper is moved into the handle
\* by wrap().
RenderProcessHandlerNew(h, d) ==
    /\ ~crashed
    /\ box[d] = "unboxed"
    /\ box' = [box EXCEPT ![d] = "boxed"]
    /\ RefCountedPtrWrap(h, "RenderProcessHandler", d)
    /\ wrappedD' = [wrappedD EXCEPT ![h] = d]
    /\ UNCHANGED <<destroys, last, crashed>>

\* A new() whose wrapper is not moved into the handle: the handle keeps the
\* address of the box, and the box is destroyed when new() returns.
V8HandlerNewDropsBox(h, d) ==
    /\ ~crashed
    /\ box[d] = "unboxed"
    /\ box' = [box EXCEPT ![d] = "destroyed"]
    /\ destroys' = [destroys EXCEPT ![d] = @ + 1]
    /\ RefCountedPtrWrap(h, "V8Handler", d)
    /\ wrappedD' = [wrappedD EXCEPT ![h] = d]
    /\ UNCHANGED <<last, crashed>>

\* V8Handler::new(delegate): as above, for cef_v8handler_t.
V8HandlerNew(h, d) ==
    /\ ~crashed
    /\ box[d] = "unboxed"
    /\ box' = [box EXCEPT ![d] = "boxed"]
    /\ RefCountedPtrWrap(h, "V8Handler", d)
    /\ wrappedD' = [wrappedD EXCEPT ![h] = d]
    /\ UNCHANGED <<destroys, last, crashed>>

\* The operation table of a handle, as its wrap() filled it.
TableOf(h) ==
    IF kind[h] = "RenderProcessHandler" THEN RphWrapTable
    ELSE IF kind[h] = "V8Handler" THEN V8HandlerWrapTable
    ELSE {}

\* Wrapped::wrappable(this): the wrappable embedded in the handle `this`.
Wrappable(this) == slot[this]

\* A foreign argument handle whose count is `before` at entry, wrapped without
\* an increment and moved into the trait method: a method that keeps the
\* wrapper leaves the count alone during the call, otherwise the wrapper is
\* dropped inside the call, which decrements.
ArgMoved(name, before, keep) ==
    [name |-> name, before |-> before,
     after |-> IF keep THEN before ELSE before - 1]

\* DictionaryValue::from_ptr(extra_info): None for the null pointer, otherwise
\* a wrapper as above.
ArgOptional(name, before, keep) ==
    IF before = NULL
    THEN [name |-> name, before |-> NULL, after |-> NULL]
    ELSE ArgMoved(name, before, keep)

\* The trait method of the delegate `d` runs and returns `result`; the
\* trampoline hands `ret` back to the foreign caller.
Dispatch(this, ev, d, result, ret, args) ==
    last' = [h |-> this, ev |-> ev, target |-> d, live |-> box[d] = "boxed",
             result |-> result, ret |-> ret, args |-> args]

\* RenderProcessHandlerWrapper::on_web_kit_initialized
OnWebKitInitialized(this) ==
    /\ Dispatch(this, "on_web_kit_initialized", Wrappable(this), "unit", "void",
                <<>>)
    /\ UNCHANGED <<kind, rc, ptrs, held, start, clones, drops, freed, slot,
                   wrappedD, box, destroys, crashed>>

\* RenderProcessHandlerWrapper::c_on_browser_created
COnBrowserCreated(this, browser, extra_info, keep) ==
    /\ Dispatch(this, "on_browser_created", Wrappable(this), "unit", "void",
                <<ArgMoved("browser", browser, keep),
                  ArgOptional("extra_info", extra_info, keep)>>)
    /\ UNCHANGED <<kind, rc, ptrs, held, start, clones, drops, freed, slot,
                   wrappedD, box, destroys, crashed>>

\* A trampoline that recovers the wrapper from the first handle made rather
\* than from the handle it was called on.
OnContextCreatedFirstWrapper(this, browser, frame, context, keep) ==
    /\ Dispatch(this, "on_context_created",
                Wrappable(CHOOSE g \in Handles : \A f \in Handles : g <= f),
                "unit", "void",
                <<ArgMoved("browser", browser, keep),
                  ArgMoved("frame", frame, keep),
                  ArgMoved("context", context, keep)>>)
    /\ UNCHANGED <<kind, rc, ptrs, held, start, clones, drops, freed, slot,
                   wrappedD, box, destroys, crashed>>

\* RenderProcessHandlerWrapper::on_context_created
OnContextCreated(this, browser, frame, context, keep) ==
    /\ Dispatch(this, "on_context_created", Wrappable(this), "unit", "void",
                <<ArgMoved("browser", browser, keep),
                  ArgMoved("frame", frame, keep),
                  ArgMoved("context", context, keep)>>)
    /\ UNCHANGED <<kind, rc, ptrs, held, start, clones, drops, freed, slot,
                   wrappedD, box, destroys, crashed>>

\* A wrap() that stores the on_context_created trampoline in the
\* on_context_released slot too (the two slots have the same signature).
SlotFnReleasedRunsCreated(h, ev) ==
    IF kind[h] = "RenderProcessHandler" /\ ev = "on_context_released"
    THEN "on_context_created"
    ELSE IF ev \in TableOf(h) THEN ev ELSE "None"

\* The function pointer wrap() stores in the slot `ev` of the table of `h`:
\* Some(trampoline of that name), or None.
SlotFn(h, ev) == IF ev \in TableOf(h) THEN ev ELSE "None"

\* What V8HandlerCallbacks::execute can return: Ok(0), Ok(1) or Err.
ExecuteResults == {"Ok0", "Ok1", "Err"}

\* A panic inside an extern "C" function: the process aborts, or (undefined
\* behaviour on toolchains that do not abort) the unwind enters foreign frames.
PanicOutcomes == {"abort", "unwind"}

\* V8HandlerWrapper::execute: the trait method's Result is unwrap()ped.
V8HandlerExecute(this, object, result, keep, outcome) ==
    /\ Dispatch(this, "execute", Wrappable(this), result,
                CASE result = "Ok0" -> "0"
                  [] result = "Ok1" -> "1"
                  [] OTHER -> outcome,
                <<ArgMoved("object", object, keep)>>)
    /\ crashed' = (result = "Err")
    /\ UNCHANGED <<kind, rc, ptrs, held, start, clones, drops, freed, slot,
                   wrappedD, box, destroys>>

\* The foreign engine finds the slot of the event null and takes its default
\* path: no native code runs.
ForeignDefault(this, ev) ==
    /\ last' = [h |-> this, ev |-> ev, target |-> NULL, live |-> TRUE,
                result |-> "none", ret |-> "default", args |-> <<>>]
    /\ UNCHANGED <<kind, rc, ptrs, held, start, clones, drops, freed, slot,
                   wrappedD, box, destroys, crashed>>

\* The foreign engine raises an event on a handle it holds a reference to.
ForeignInvoke(this, ev) ==
    /\ ~crashed
    /\ held[this] > 0
    /\ IF SlotFn(this, ev) = "None"
       THEN ForeignDefault(this, ev)
       ELSE CASE SlotFn(this, ev) = "on_web_kit_initialized" ->
                    OnWebKitInitialized(this)
              [] SlotFn(this, ev) = "on_browser_created" ->
                    \E b \in 1..MaxArgRc, e \in {NULL} \cup 1..MaxArgRc,
                       keep \in BOOLEAN :
                        COnBrowserCreated(this, b, e, keep)
              [] SlotFn(this, ev) = "on_context_created" ->
                    \E b \in 1..MaxArgRc, f \in 1..MaxArgRc, c \in 1..MaxArgRc,
                       keep \in BOOLEAN :
                        OnContextCreated(this, b, f, c, keep)
              [] SlotFn(this, ev) = "execute" ->
                    \E o \in 1..MaxArgRc, r \in ExecuteResults,
                       keep \in BOOLEAN, out \in PanicOutcomes :
                        V8HandlerExecute(this, o, r, keep, out)

\* ---------------------------------------------------- the engine's side
\* What the engine does with a handle passed to it as an argument: it takes
\* over one reference of the caller's and releases it when it is done with the
\* handle ("callee_owns"), or it leaves the caller's references alone and adds
\* one of its own for as long as it keeps the handle ("caller_owns").
ArgConventions == {"callee_owns", "caller_owns"}

VARIABLE
    conv        \* the engine's convention, one of ArgConventions, for good

\* ------------------------------------------------------------ the facade
\* The foreign engine behind V8Context and V8Value: a pool of value and
\* context handles, one global object with a writable and a read-only
\* property, and the context's enter count.

VHandles == 1..NumValues

\* Pointers to the browser and the frame of a context: handles of foreign kinds
\* outside the pool.
BrowserPtr == NumValues + 1
FramePtr == NumValues + 2

\* What a handle refers to: a type tag with an int and a string payload.
Content(t, i, s) == [t |-> t, i |-> i, s |-> s]
Free == Content("free", 0, "")
Absent == Content("absent", 0, "")
Undef == Content("undefined", 0, "")
Obj == Content("object", 0, "")
Ctx == Content("context", 0, "")
IntVals == {5}
StrVals == {"hello"}
IntC(n) == Content("int", n, "")
StrC(x) == Content("string", 0, x)

\* The keys of the global object: "0" is writable (and is index 0);
\* "undefined" is a read-only, don't-delete property whose value is undefined.
Keys == {"0", "undefined"}
RoKeys == {"undefined"}
RoValue == Undef
Indices == {-1, 0}
KeyOfIndex(i) == IF i = 0 THEN "0" ELSE "none"

\* The state in which a call finds the receiver: the slot it forwards to is
\* null on this handle; or the slot is there and the handle is invalid or the
\* caller is off its thread; or neither.
Conds == {"ok", "null_slot", "invalid"}

\* Result<T> of a facade call.
Res(k, b, i, p, x) == [k |-> k, b |-> b, i |-> i, p |-> p, s |-> x]
ErrRes == Res("err", FALSE, 0, NULL, "")
OkBool(b) == Res("bool", b, 0, NULL, "")
OkInt(i) == Res("int", FALSE, i, NULL, "")
OkPtr(q) == Res("ptr", FALSE, 0, q, "")
OkStr(x) == Res("str", FALSE, 0, NULL, x)
NoRes == Res("none", FALSE, 0, NULL, "")

VARIABLES
    vcont,      \* [VHandles -> contents]: Free when the address holds no handle
    vrc,        \* the handle's reference count
    vown,       \* live native wrappers of the handle
    vheld,      \* references handed to the foreign side and not yet released
    prop,       \* the value of the global object's property "0", or Absent
    depth,      \* the context's enter count
    net,        \* enters that returned Ok(1) minus exits that returned Ok(1)
    flast       \* the last facade call

fvars == <<vcont, vrc, vown, vheld, prop, depth, net, flast>>

\* A facade call: the wrapper type and the function, the state it found, the
\* foreign operation it
\* invoked ("none" when none), its result, whether the foreign operation
\* returned the null pointer, the decrements the native side made on the
\* wrapper passed by value, the references it handed over, the decrements the
\* engine made on the argument during the call, the enter count at entry, and
\* the place of the call in a write/read/compare chain.
FCall(ty, op, cond, invoked, res) ==
    [ty |-> ty, op |-> op, cond |-> cond, invoked |-> invoked,
     res |-> res, fnull |-> FALSE, decs |-> 0, moved |-> 0, fdecs |-> 0,
     dbefore |-> depth,
     chain |-> "none", co |-> NULL, ck |-> "none", cv |-> NULL, cr |-> NULL]

NoFCall == [FCall("none", "none", "ok", "none", NoRes) EXCEPT !.dbefore = 0]

FacadeInit ==
    /\ vcont = [v \in VHandles |-> Free]
    /\ vrc = [v \in VHandles |-> 0]
    /\ vown = [v \in VHandles |-> 0]
    /\ vheld = [v \in VHandles |-> 0]
    /\ prop = Absent
    /\ depth = 0
    /\ net = 0
    /\ flast = NoFCall

\* f[1] + .. + f[n]
RECURSIVE SumTo(_, _)
SumTo(f, n) == IF n = 0 THEN 0 ELSE f[n] + SumTo(f, n - 1)

\* The address of the next handle the engine makes: the lowest free one.
VFresh(v) == vcont[v] = Free /\ \A g \in VHandles : g < v => vcont[g] # Free

\* The engine makes a handle for content c and returns it with one reference,
\* which from_ptr_unchecked wraps without an increment.
VMake(v, c) ==
    /\ VFresh(v)
    /\ SumTo(vown, NumValues) < MaxOwn
    /\ vcont' = [vcont EXCEPT ![v] = c]
    /\ vrc' = [vrc EXCEPT ![v] = 1]
    /\ vown' = [vown EXCEPT ![v] = 1]

\* release on a pool handle: at zero the engine frees it.
VRelease(v) ==
    /\ vrc' = [vrc EXCEPT ![v] = @ - 1]
    /\ vcont' = [vcont EXCEPT ![v] = IF vrc[v] - 1 = 0 THEN Free ELSE @]

\* V8Value::create_int
V8ValueCreateInt(v, i) ==
    /\ VMake(v, IntC(i))
    /\ flast' = FCall("V8Value", "create_int", "ok",
                      "cef_v8value_create_int", OkPtr(v))
    /\ UNCHANGED <<vheld, prop, depth, net>>

\* V8Value::create_string
V8ValueCreateString(v, x) ==
    /\ VMake(v, StrC(x))
    /\ flast' = FCall("V8Value", "create_string", "ok",
                      "cef_v8value_create_string", OkPtr(v))
    /\ UNCHANGED <<vheld, prop, depth, net>>

\* V8Context::get_current_context
V8ContextGetCurrentContext(v) ==
    /\ VMake(v, Ctx)
    /\ flast' = FCall("V8Context", "get_current_context", "ok",
                      "cef_v8context_get_current_context", OkPtr(v))
    /\ UNCHANGED <<vheld, prop, depth, net>>

\* Clone of a V8Value or V8Context wrapper.
VClone(v) ==
    /\ vown[v] > 0
    /\ SumTo(vown, NumValues) < MaxOwn
    /\ vrc' = [vrc EXCEPT ![v] = @ + 1]
    /\ vown' = [vown EXCEPT ![v] = @ + 1]
    /\ flast' = NoFCall
    /\ UNCHANGED <<vcont, vheld, prop, depth, net>>

\* Drop of a V8Value or V8Context wrapper.
VDrop(v) ==
    /\ vown[v] > 0
    /\ VRelease(v)
    /\ vown' = [vown EXCEPT ![v] = @ - 1]
    /\ flast' = NoFCall
    /\ UNCHANGED <<vheld, prop, depth, net>>

\* The foreign side releases a reference that was handed to it.
VForeignRelease(v) ==
    /\ vheld[v] > 0
    /\ VRelease(v)
    /\ vheld' = [vheld EXCEPT ![v] = @ - 1]
    /\ flast' = NoFCall
    /\ UNCHANGED <<vown, prop, depth, net>>

\* try_c!(self, slot, body): a null slot is an error and the body is not
\* evaluated; otherwise the result is the body's.
TryC(cond, body) == IF cond = "null_slot" THEN ErrRes ELSE body

\* The foreign operation a call invokes: the slot's, or none when it is null.
Invoked(cond, slotname) == IF cond = "null_slot" THEN "none" ELSE slotname

\* x != 0
NonZero(x) == x # 0

\* A native V8Value wrapper, and a native V8Context wrapper, of a handle the
\* engine has not freed (a call through a wrapper left behind by a freed handle
\* reads freed memory and is not followed further).
IsValue(v) == vown[v] > 0 /\ vcont[v].t \notin {"context", "free"}
IsPrimitive(v) == vown[v] > 0 /\ vcont[v].t \notin {"context", "object", "free"}
IsContext(v) == vown[v] > 0 /\ vcont[v].t = "context"

\* The V8Value accessors that take no argument, by what they return.
TypePredicates ==
    [is_undefined |-> "undefined", is_null |-> "null", is_bool |-> "bool",
     is_int |-> "int", is_uint |-> "uint", is_double |-> "double",
     is_date |-> "date", is_string |-> "string", is_object |-> "object",
     is_array |-> "array", is_array_buffer |-> "array_buffer",
     is_function |-> "function", is_promise |-> "promise"]
FlagOps == {"is_user_created", "has_exception", "clear_exception",
            "will_rethrow_exceptions"}
BoolOps == {"is_valid", "get_bool_value"} \cup DOMAIN TypePredicates \cup FlagOps
NumOps == {"get_int_value", "get_uint_value", "get_double_value"}
StrOps == {"get_string_value"}

\* The native strings of the model and their scalar values: "hwair" stands
\* for the one-character string U+10348, which lies outside the basic plane.
NativeStrs == {"", "hello", "hwair"}
CodePoints(x) ==
    CASE x = "hello" -> <<104, 101, 108, 108, 111>>
      [] x = "hwair" -> <<66376>>
      [] OTHER -> <<>>

\* UTF-16: a scalar value below 2^16 is one unit, any other a surrogate pair.
RECURSIVE Utf16Encode(_)
Utf16Encode(cps) ==
    IF cps = <<>> THEN <<>>
    ELSE (IF Head(cps) < 65536
          THEN <<Head(cps)>>
          ELSE <<55296 + ((Head(cps) - 65536) \div 1024),
                 56320 + ((Head(cps) - 65536) % 1024)>>)
         \o Utf16Encode(Tail(cps))

\* The reverse: a high surrogate followed by a low one is one scalar value, a
\* surrogate on its own is replaced by U+FFFD.
RECURSIVE Utf16Decode(_)
Utf16Decode(u) ==
    IF u = <<>> THEN <<>>
    ELSE IF /\ Head(u) \in 55296..56319
            /\ Len(u) >= 2
            /\ u[2] \in 56320..57343
         THEN <<65536 + (Head(u) - 55296) * 1024 + (u[2] - 56320)>>
              \o Utf16Decode(Tail(Tail(u)))
    ELSE IF Head(u) \in 55296..57343
         THEN <<65533>> \o Utf16Decode(Tail(u))
    ELSE <<Head(u)>> \o Utf16Decode(Tail(u))

\* CefString::new(x): the UTF-16 units of a native string.
CefStringNew(x) == Utf16Encode(CodePoints(x))

\* String::from(CefString): the native string of the units.
CefStringInto(u) ==
    IF \E x \in NativeStrs : CodePoints(x) = Utf16Decode(u)
    THEN CHOOSE x \in NativeStrs : CodePoints(x) = Utf16Decode(u)
    ELSE "other"

\* What the engine's operation returns for content c: a type predicate tests
\* the tag, a getter reads the payload of its own type and is zero or empty on
\* another, a flag is the engine's (fv); on an invalid handle or off its thread
\* everything is zero or empty.
ForeignBool(op, c, valid, fv) ==
    IF ~valid THEN 0
    ELSE IF op = "is_valid" THEN 1
    ELSE IF op \in DOMAIN TypePredicates
         THEN (IF c.t = TypePredicates[op] THEN 1 ELSE 0)
    ELSE IF op = "get_bool_value" THEN (IF c.t = "bool" THEN c.i ELSE 0)
    ELSE fv
ForeignNum(op, c, valid) ==
    IF ~valid THEN 0
    ELSE IF op = "get_int_value" THEN (IF c.t = "int" THEN c.i ELSE 0)
    ELSE IF op = "get_uint_value" THEN (IF c.t = "uint" THEN c.i ELSE 0)
    ELSE (IF c.t \in {"int", "uint", "double"} THEN c.i ELSE 0)
ForeignStr(c, valid) ==
    IF valid /\ c.t = "string" THEN CefStringNew(c.s) ELSE <<>>

\* The name a call without arguments is recorded under: is_valid is itself,
\* any other is an accessor.
Family(op) == IF op = "is_valid" THEN op ELSE "accessor"

\* Accessors of which get_int_value forwards to the get_uint_value slot.
V8ValueAccessorIntByUintSlot(op, v, cond) ==
    /\ IsValue(v)
    /\ flast' = FCall("V8Value", Family(op), cond, Invoked(cond, Family(op)),
          TryC(cond,
               IF op \in BoolOps
               THEN OkBool(NonZero(ForeignBool(op, vcont[v], cond = "ok", 0)))
               ELSE IF op \in NumOps
               THEN OkInt(ForeignNum(IF op = "get_int_value"
                                     THEN "get_uint_value" ELSE op,
                                     vcont[v], cond = "ok"))
               ELSE OkStr(CefStringInto(ForeignStr(vcont[v], cond = "ok")))))
    /\ UNCHANGED <<vcont, vrc, vown, vheld, prop, depth, net>>

\* V8Value::is_valid .. V8Value::get_string_value: the type predicates and the
\* getters, is_same excepted
V8ValueAccessor(op, v, cond) ==
    /\ IsValue(v)
    /\ flast' = FCall("V8Value", Family(op), cond, Invoked(cond, Family(op)),
          TryC(cond,
               IF op \in BoolOps
               THEN OkBool(NonZero(ForeignBool(op, vcont[v], cond = "ok", 0)))
               ELSE IF op \in NumOps
               THEN OkInt(ForeignNum(op, vcont[v], cond = "ok"))
               ELSE OkStr(CefStringInto(ForeignStr(vcont[v], cond = "ok")))))
    /\ UNCHANGED <<vcont, vrc, vown, vheld, prop, depth, net>>

\* V8Value::is_user_created .. V8Value::will_rethrow_exceptions
V8ValueFlag(op, v, cond, fv) ==
    /\ IsValue(v)
    /\ flast' = FCall("V8Value", Family(op), cond, Invoked(cond, Family(op)),
          TryC(cond, OkBool(NonZero(ForeignBool(op, vcont[v], cond = "ok", fv)))))
    /\ UNCHANGED <<vcont, vrc, vown, vheld, prop, depth, net>>

\* The engine, called with a handle argument it does not keep, releases the
\* argument before it returns when arguments are the callee's.
EngineReleasesArg(cond) == cond # "null_slot" /\ conv = "callee_owns"

\* V8Value::is_same: the argument is passed with as_ptr and the caller keeps
\* its wrapper.
V8ValueIsSame(v, that, cond) ==
    /\ IsValue(v)
    /\ IsValue(that)
    /\ LET same == IF cond = "ok" /\ vcont[v] = vcont[that] THEN 1 ELSE 0
           chained == /\ flast.chain = "got"
                      /\ flast.cr = v
                      /\ flast.cv = that
                      /\ cond = "ok"
       IN  flast' = [FCall("V8Value", "is_same", cond,
                           Invoked(cond, "is_same"),
                           TryC(cond, OkBool(NonZero(same))))
                        EXCEPT !.chain = IF chained THEN "same" ELSE "none",
                               !.co = IF chained THEN flast.co ELSE NULL,
                               !.ck = IF chained THEN flast.ck ELSE "none",
                               !.cv = IF chained THEN that ELSE NULL,
                               !.cr = IF chained THEN v ELSE NULL,
                               !.fdecs = IF EngineReleasesArg(cond)
                                         THEN 1 ELSE 0]
    /\ IF EngineReleasesArg(cond)
       THEN VRelease(that)
       ELSE UNCHANGED <<vcont, vrc>>
    /\ UNCHANGED <<vown, vheld, prop, depth, net>>

\* V8Value::set_rethrow_exceptions
V8ValueSetRethrowExceptions(v, rethrow, cond, fv) ==
    /\ IsValue(v)
    /\ flast' = FCall("V8Value", "set_rethrow_exceptions", cond,
          Invoked(cond, "set_rethrow_exceptions"),
          TryC(cond, OkBool(NonZero(IF cond = "ok" THEN fv ELSE 0))))
    /\ UNCHANGED <<vcont, vrc, vown, vheld, prop, depth, net>>

\* The object the engine's property operations work on: the global object,
\* through a valid handle to it.
OnObject(v, cond) == cond = "ok" /\ vcont[v] = Obj

ForeignHasValue(v, k, cond) ==
    IF OnObject(v, cond) /\ (k \in RoKeys \/ (k = "0" /\ prop # Absent))
    THEN 1 ELSE 0

\* V8Value::has_value_by_key
V8ValueHasValueByKey(v, k, cond) ==
    /\ IsValue(v)
    /\ flast' = FCall("V8Value", "has_value_by_key", cond,
          Invoked(cond, "has_value_bykey"),
          TryC(cond, OkBool(NonZero(ForeignHasValue(v, k, cond)))))
    /\ UNCHANGED <<vcont, vrc, vown, vheld, prop, depth, net>>

\* V8Value::has_value_by_index
V8ValueHasValueByIndex(v, i, cond) ==
    /\ IsValue(v)
    /\ flast' = FCall("V8Value", "has_value_by_index", cond,
          Invoked(cond, "has_value_byindex"),
          TryC(cond, OkBool(NonZero(ForeignHasValue(v, KeyOfIndex(i), cond)))))
    /\ UNCHANGED <<vcont, vrc, vown, vheld, prop, depth, net>>

\* The engine deletes a property: true on an object for a key, and for a
\* read-only or don't-delete property true although nothing is deleted.
ForeignDelete(v, k, cond) ==
    /\ prop' = IF OnObject(v, cond) /\ k = "0" THEN Absent ELSE prop
    /\ UNCHANGED <<vcont, vrc, vown, vheld, depth, net>>
ForeignDeleteRet(v, k, cond) == IF OnObject(v, cond) /\ k \in Keys THEN 1 ELSE 0

\* V8Value::delete_value_by_key
V8ValueDeleteValueByKey(v, k, cond) ==
    /\ IsValue(v)
    /\ flast' = FCall("V8Value", "delete_value_by_key", cond,
          Invoked(cond, "delete_value_bykey"),
          TryC(cond, OkBool(NonZero(ForeignDeleteRet(v, k, cond)))))
    /\ IF cond = "null_slot"
       THEN UNCHANGED <<vcont, vrc, vown, vheld, prop, depth, net>>
       ELSE ForeignDelete(v, k, cond)

\* V8Value::delete_value_by_index
V8ValueDeleteValueByIndex(v, i, cond) ==
    /\ IsValue(v)
    /\ flast' = FCall("V8Value", "delete_value_by_index", cond,
          Invoked(cond, "delete_value_byindex"),
          TryC(cond, OkBool(NonZero(ForeignDeleteRet(v, KeyOfIndex(i), cond)))))
    /\ IF cond = "null_slot"
       THEN UNCHANGED <<vcont, vrc, vown, vheld, prop, depth, net>>
       ELSE ForeignDelete(v, KeyOfIndex(i), cond)

\* The value the engine reads under a key of the global object.
ForeignGet(k) ==
    IF k \in RoKeys THEN RoValue ELSE IF prop = Absent THEN Undef ELSE prop

\* A pointer-returning read of the key asked for, k being the key passed to the
\* engine: the engine makes a handle r for the value under the key, or returns the null pointer when the receiver is not a valid object
\* handle or there is no such key; from_ptr_unchecked wraps what it returned.
GetValue(op, slotname, v, r, asked, k, cond) ==
    /\ IsValue(v)
    /\ IF OnObject(v, cond) /\ k \in Keys
       THEN /\ r \in VHandles
            /\ VMake(r, ForeignGet(k))
            /\ LET chained == /\ op = "get_value_by_key"
                              /\ flast.chain = "set"
                              /\ flast.co = v
                              /\ flast.ck = asked
               IN  flast' = [FCall("V8Value", op, cond, slotname, OkPtr(r))
                                EXCEPT !.chain = IF chained THEN "got" ELSE "none",
                                       !.co = IF chained THEN v ELSE NULL,
                                       !.ck = IF chained THEN asked ELSE "none",
                                       !.cv = IF chained THEN flast.cv ELSE NULL,
                                       !.cr = IF chained THEN r ELSE NULL]
       ELSE /\ r = NULL
            /\ flast' = [FCall("V8Value", op, cond, Invoked(cond, slotname),
                               TryC(cond, OkPtr(NULL)))
                            EXCEPT !.fnull = (cond # "null_slot")]
            /\ UNCHANGED <<vcont, vrc, vown>>
    /\ UNCHANGED <<vheld, prop, depth, net>>

\* get_value_bykey called with another key than the one asked for.
V8ValueGetValueByKeyOtherKey(v, r, k, cond) ==
    GetValue("get_value_by_key", "get_value_bykey", v, r, k,
             CHOOSE j \in Keys : j # k, cond)

\* V8Value::get_value_by_key
V8ValueGetValueByKey(v, r, k, cond) ==
    GetValue("get_value_by_key", "get_value_bykey", v, r, k, k, cond)

\* V8Value::get_value_by_index
V8ValueGetValueByIndex(v, r, i, cond) ==
    GetValue("get_value_by_index", "get_value_byindex", v, r, KeyOfIndex(i),
             KeyOfIndex(i), cond)

\* into_raw on the wrapper passed by value: the wrapper is gone and its
\* reference is the foreign side's.
VIntoRaw(value) ==
    /\ SumTo(vheld, NumValues) < MaxHeldV
    /\ vown' = [vown EXCEPT ![value] = @ - 1]
    /\ vheld' = [vheld EXCEPT ![value] = @ + 1]
    /\ UNCHANGED <<vcont, vrc>>

\* The wrapper passed by value goes out of scope unused.
VDropArg(value) ==
    /\ VRelease(value)
    /\ vown' = [vown EXCEPT ![value] = @ - 1]
    /\ UNCHANGED vheld

\* as_ptr on the wrapper passed by value, which then goes out of scope.
SetValueBorrows(op, slotname, v, k, value, cond) ==
    /\ IsValue(v)
    /\ IsPrimitive(value)
    /\ v = value => vown[v] >= 2
    /\ VDropArg(value)
    /\ prop' = IF OnObject(v, cond) /\ k = "0" THEN vcont[value] ELSE prop
    /\ flast' = [FCall("V8Value", op, cond, Invoked(cond, slotname),
                       TryC(cond, OkBool(OnObject(v, cond) /\ k \in Keys)))
                    EXCEPT !.decs = 1]
    /\ UNCHANGED <<depth, net>>

\* A write: the engine associates the value with the key and returns true; for
\* a read-only property it returns true although the assignment failed; on a
\* receiver that is not a valid object handle, or for no key, false.
SetValue(op, slotname, v, k, value, cond) ==
    /\ IsValue(v)
    /\ IsPrimitive(value)
    /\ v = value => vown[v] >= 2
    /\ IF cond = "null_slot"
       THEN /\ VDropArg(value)
            /\ flast' = [FCall("V8Value", op, cond, "none", ErrRes)
                            EXCEPT !.decs = 1]
            /\ UNCHANGED prop
       ELSE /\ VIntoRaw(value)
            /\ prop' = IF OnObject(v, cond) /\ k = "0" THEN vcont[value] ELSE prop
            /\ LET ret == IF OnObject(v, cond) /\ k \in Keys THEN 1 ELSE 0
                   chained == /\ op = "set_value_by_key"
                              /\ ret = 1
                              /\ vown[value] >= 2
                              /\ v # value
               IN  flast' = [FCall("V8Value", op, cond, slotname,
                                   OkBool(NonZero(ret)))
                                EXCEPT !.moved = 1,
                                       !.chain = IF chained THEN "set" ELSE "none",
                                       !.co = IF chained THEN v ELSE NULL,
                                       !.ck = IF chained THEN k ELSE "none",
                                       !.cv = IF chained THEN value ELSE NULL]
    /\ UNCHANGED <<depth, net>>

\* V8Value::set_value_by_key
V8ValueSetValueByKey(v, k, value, cond) ==
    SetValue("set_value_by_key", "set_value_bykey", v, k, value, cond)

\* V8Value::set_value_by_index
V8ValueSetValueByIndex(v, i, value, cond) ==
    SetValue("set_value_by_index", "set_value_byindex", v, KeyOfIndex(i), value, cond)

\* V8Context::is_valid
V8ContextIsValid(v, cond) ==
    /\ IsContext(v)
    /\ flast' = FCall("V8Context", "is_valid", cond, Invoked(cond, "is_valid"),
          TryC(cond, OkBool(NonZero(IF cond = "ok" THEN 1 ELSE 0))))
    /\ UNCHANGED <<vcont, vrc, vown, vheld, prop, depth, net>>

\* A context's browser or frame: the engine returns the null pointer for a
\* WebWorker context (and through an invalid handle).
GetCollaborator(op, q, v, cond, worker) ==
    /\ IsContext(v)
    /\ LET ret == IF cond = "ok" /\ ~worker THEN q ELSE NULL
       IN  flast' = [FCall("V8Context", op, cond, Invoked(cond, op),
                           TryC(cond, OkPtr(ret)))
                        EXCEPT !.fnull = (cond # "null_slot" /\ ret = NULL)]
    /\ UNCHANGED <<vcont, vrc, vown, vheld, prop, depth, net>>

\* V8Context::get_browser
V8ContextGetBrowser(v, cond, worker) ==
    GetCollaborator("get_browser", BrowserPtr, v, cond, worker)

\* V8Context::get_frame
V8ContextGetFrame(v, cond, worker) ==
    GetCollaborator("get_frame", FramePtr, v, cond, worker)

\* V8Context::get_global
V8ContextGetGlobal(v, g, cond) ==
    /\ IsContext(v)
    /\ IF cond = "ok"
       THEN /\ g \in VHandles
            /\ VMake(g, Obj)
            /\ flast' = FCall("V8Context", "get_global", cond, "get_global",
                              OkPtr(g))
       ELSE /\ g = NULL
            /\ flast' = [FCall("V8Context", "get_global", cond,
                               Invoked(cond, "get_global"), TryC(cond, OkPtr(NULL)))
                            EXCEPT !.fnull = (cond # "null_slot")]
            /\ UNCHANGED <<vcont, vrc, vown>>
    /\ UNCHANGED <<vheld, prop, depth, net>>

\* The engine enters the context: the enter count goes up and it returns 1;
\* through an invalid handle it returns 0.
ForeignEnter(cond) == IF cond = "ok" THEN 1 ELSE 0

\* The engine exits the context: with a scope entered the enter count goes
\* down and it returns 1; with none entered, or through an invalid handle, it
\* returns 0.
ForeignExit(cond) == IF cond = "ok" /\ depth > 0 THEN 1 ELSE 0

\* enter with the slot unwrapped instead of tested: a null slot panics.
V8ContextEnterUnwrapsSlot(v, cond) ==
    /\ IsContext(v)
    /\ depth < MaxDepth
    /\ LET res == IF cond = "null_slot"
                  THEN Res("panic", FALSE, 0, NULL, "")
                  ELSE OkInt(ForeignEnter(cond))
       IN  /\ flast' = FCall("V8Context", "enter", cond, Invoked(cond, "enter"), res)
           /\ depth' = IF cond = "null_slot" THEN depth ELSE depth + ForeignEnter(cond)
           /\ net' = IF res = OkInt(1) THEN net + 1 ELSE net
    /\ UNCHANGED <<vcont, vrc, vown, vheld, prop>>

\* V8Context::enter
V8ContextEnter(v, cond) ==
    /\ IsContext(v)
    /\ depth < MaxDepth
    /\ LET res == TryC(cond, OkInt(ForeignEnter(cond)))
       IN  /\ flast' = FCall("V8Context", "enter", cond, Invoked(cond, "enter"), res)
           /\ depth' = IF cond = "null_slot" THEN depth ELSE depth + ForeignEnter(cond)
           /\ net' = IF res = OkInt(1) THEN net + 1 ELSE net
    /\ UNCHANGED <<vcont, vrc, vown, vheld, prop>>

\* V8Context::exit
V8ContextExit(v, cond) ==
    /\ IsContext(v)
    /\ LET res == TryC(cond, OkInt(ForeignExit(cond)))
       IN  /\ flast' = FCall("V8Context", "exit", cond, Invoked(cond, "exit"), res)
           /\ depth' = IF cond = "null_slot" THEN depth ELSE depth - ForeignExit(cond)
           /\ net' = IF res = OkInt(1) THEN net - 1 ELSE net
    /\ UNCHANGED <<vcont, vrc, vown, vheld, prop>>

\* V8Context::is_same: the argument is passed by value and handed over with
\* into_raw; an engine that owns its arguments releases it before it returns
\* (the wrapper is gone and the count is one less), any other leaves the
\* reference where it was put.
V8ContextIsSame(v, that, cond) ==
    /\ IsContext(v)
    /\ IsContext(that)
    /\ v = that => vown[v] >= 2
    /\ IF cond = "null_slot"
       THEN /\ VDropArg(that)
            /\ flast' = [FCall("V8Context", "is_same", cond, "none", ErrRes)
                            EXCEPT !.decs = 1]
       ELSE /\ IF EngineReleasesArg(cond)
               THEN VDropArg(that)
               ELSE VIntoRaw(that)
            /\ flast' = [FCall("V8Context", "is_same", cond, "is_same",
                               OkBool(NonZero(IF cond = "ok" THEN 1 ELSE 0)))
                            EXCEPT !.moved = 1,
                                   !.fdecs = IF EngineReleasesArg(cond)
                                             THEN 1 ELSE 0]
    /\ UNCHANGED <<prop, depth, net>>

\* The content of a function value.
Func == Content("function", 0, "")

\* V8Value::create_function(name, handler): the engine is given
\* handler.as_ptr() and keeps the handler for the function it makes; the
\* wrapper `handler`, passed by value, is dropped when create_function
\* returns. An engine that owns its arguments counts one of the caller's
\* references as the function's and adds none; any other adds its own.
V8ValueCreateFunction(h, v) ==
    /\ ~crashed
    /\ kind[h] = "V8Handler"
    /\ ptrs[h] > 0
    /\ ~freed[h]
    /\ held[h] < MaxHeld
    /\ held' = [held EXCEPT ![h] = @ + 1]
    /\ IF conv = "callee_owns"
       THEN BaseRelease(h)
       ELSE UNCHANGED <<rc, freed, box, destroys>>
    /\ ptrs' = [ptrs EXCEPT ![h] = @ - 1]
    /\ drops' = [drops EXCEPT ![h] = @ + 1]
    /\ VMake(v, Func)
    /\ flast' = FCall("V8Value", "create_function", "ok",
                      "cef_v8value_create_function", OkPtr(v))
    /\ UNCHANGED <<kind, start, clones, slot, wrappedD, last, crashed, vheld,
                   prop, depth, net>>

\* ---------------------------------------------------------------- threads
\* One adapter handle shared by several threads, native and foreign: each
\* owns some of its references, clones and drops them, moves them to another
\* thread, and a thread that owns one may call the handle's trampolines.

Threads == 1..NumThreads

VARIABLES
    trc,        \* the shared handle's reference count
    town,       \* [Threads -> Nat]: references each thread owns
    tpc,        \* [Threads -> {"idle", "add_ref", "release"}]: call in progress
    tseen,      \* [Threads -> Nat]: the count when the call in progress began
    tdestroys,  \* times the handle's boxed trait object was destroyed
    tnest       \* [Threads -> Nat]: trampoline invocations running on a thread

xvars == <<conv, trc, town, tpc, tseen, tdestroys, tnest>>

\* V8Handler::new on the first thread: one reference, one Smart Pointer.
ThreadInit ==
    /\ trc = 1
    /\ town = [t \in Threads |-> IF t = 1 THEN 1 ELSE 0]
    /\ tpc = [t \in Threads |-> "idle"]
    /\ tseen = [t \in Threads |-> 0]
    /\ tdestroys = 0
    /\ tnest = [t \in Threads |-> 0]

\* A read-modify-write made of a load at the entry of the call and a store
\* later on: what the thread stores is computed from the count it loaded.
FetchAddLoadStore(t, delta) == tseen[t] + delta

\* The atomic read-modify-write of add_ref and release: the new count is
\* computed from the count at the moment of the update.
FetchAdd(t, delta) == trc + delta

\* A thread begins clone() on a Smart Pointer it owns.
CloneBegin(t) ==
    /\ tpc[t] = "idle"
    /\ town[t] > 0
    /\ SumTo(town, NumThreads) + Cardinality({u \in Threads : tpc[u] = "add_ref"})
          < MaxRefs
    /\ tpc' = [tpc EXCEPT ![t] = "add_ref"]
    /\ tseen' = [tseen EXCEPT ![t] = trc]
    /\ UNCHANGED <<conv, trc, town, tdestroys, tnest>>

\* add_ref: the count goes up and the thread owns one more Smart Pointer.
CloneAddRef(t) ==
    /\ tpc[t] = "add_ref"
    /\ trc' = FetchAdd(t, 1)
    /\ town' = [town EXCEPT ![t] = @ + 1]
    /\ tpc' = [tpc EXCEPT ![t] = "idle"]
    /\ tseen' = [tseen EXCEPT ![t] = 0]
    /\ UNCHANGED <<conv, tdestroys, tnest>>

\* A thread begins the drop of a Smart Pointer it owns (a foreign thread: the
\* release of a reference it holds).
DropBegin(t) ==
    /\ tpc[t] = "idle"
    /\ town[t] > 0
    /\ tpc' = [tpc EXCEPT ![t] = "release"]
    /\ tseen' = [tseen EXCEPT ![t] = trc]
    /\ UNCHANGED <<conv, trc, town, tdestroys, tnest>>

\* release: the count goes down, and the thread that brings it to zero
\* destroys the handle with the boxed trait object.
DropRelease(t) ==
    /\ tpc[t] = "release"
    /\ trc' = FetchAdd(t, -1)
    /\ town' = [town EXCEPT ![t] = @ - 1]
    /\ tdestroys' = IF trc' = 0 THEN tdestroys + 1 ELSE tdestroys
    /\ tpc' = [tpc EXCEPT ![t] = "idle"]
    /\ tseen' = [tseen EXCEPT ![t] = 0]
    /\ UNCHANGED <<conv, tnest>>

\* A Smart Pointer moves to another thread (the trait objects are Send), or is
\* handed to a foreign thread with into_raw: the count is not touched.
MoveTo(t, u) ==
    /\ t # u
    /\ tpc[t] = "idle"
    /\ town[t] > 0
    /\ town' = [town EXCEPT ![t] = @ - 1, ![u] = @ + 1]
    /\ UNCHANGED <<conv, trc, tpc, tseen, tdestroys, tnest>>

\* The engine calls a trampoline of the handle on a thread that holds a
\* reference, possibly from inside a trampoline already running on that
\* thread: `let this: &mut Self = Wrapped::wrappable(this)`, then the trait
\* method runs. Nothing is locked and nothing is tested.
TrampolineEnter(t) ==
    /\ town[t] > 0
    /\ tnest[t] < MaxNest
    /\ tnest' = [tnest EXCEPT ![t] = @ + 1]
    /\ UNCHANGED <<conv, trc, town, tpc, tseen, tdestroys>>

\* The trait method returns and the trampoline with it.
TrampolineReturn(t) ==
    /\ tnest[t] > 0
    /\ tnest' = [tnest EXCEPT ![t] = @ - 1]
    /\ UNCHANGED <<conv, trc, town, tpc, tseen, tdestroys>>

\* The references to pool handles, native and foreign.
Live == SumTo(vown, NumValues) + SumTo(vheld, NumValues)

\* A step of the facade leaves the adapters alone and never has more than
\* MaxLive references at a time.
FacadeStep == Live' <= MaxLive /\ UNCHANGED <<avars, xvars>>

\* The facade: every accessor on every wrapper in every state of the receiver,
\* the wrappers made by the constructors and dropped.
NextFacade ==
    \/ /\ \E v \in VHandles, i \in IntVals : V8ValueCreateInt(v, i)
       /\ FacadeStep
    \/ /\ \E v \in VHandles, x \in StrVals : V8ValueCreateString(v, x)
       /\ FacadeStep
    \/ /\ \E v \in VHandles : V8ContextGetCurrentContext(v)
       /\ FacadeStep
    \/ /\ \E v \in VHandles : VDrop(v)
       /\ FacadeStep
    \/ /\ \E v \in VHandles : VForeignRelease(v)
       /\ FacadeStep
    \/ /\ \E op \in (BoolOps \ FlagOps) \cup NumOps \cup StrOps, v \in VHandles,
            cond \in Conds : V8ValueAccessor(op, v, cond)
       /\ FacadeStep
    \/ /\ \E op \in FlagOps, v \in VHandles, cond \in Conds, fv \in {0, 1} :
            V8ValueFlag(op, v, cond, fv)
       /\ FacadeStep
    \/ /\ \E v, that \in VHandles, cond \in Conds : V8ValueIsSame(v, that, cond)
       /\ FacadeStep
    \/ /\ \E v \in VHandles, rethrow \in BOOLEAN, cond \in Conds, fv \in {0, 1} :
            V8ValueSetRethrowExceptions(v, rethrow, cond, fv)
       /\ FacadeStep
    \/ /\ \E v \in VHandles, k \in Keys, cond \in Conds :
            V8ValueHasValueByKey(v, k, cond)
       /\ FacadeStep
    \/ /\ \E v \in VHandles, i \in Indices, cond \in Conds :
            V8ValueHasValueByIndex(v, i, cond)
       /\ FacadeStep
    \/ /\ \E v \in VHandles, k \in Keys, cond \in Conds :
            V8ValueDeleteValueByKey(v, k, cond)
       /\ FacadeStep
    \/ /\ \E v \in VHandles, i \in Indices, cond \in Conds :
            V8ValueDeleteValueByIndex(v, i, cond)
       /\ FacadeStep
    \/ /\ \E v \in VHandles, r \in VHandles \cup {NULL}, k \in Keys, cond \in Conds :
            V8ValueGetValueByKey(v, r, k, cond)
       /\ FacadeStep
    \/ /\ \E v \in VHandles, r \in VHandles \cup {NULL}, i \in Indices, cond \in Conds :
            V8ValueGetValueByIndex(v, r, i, cond)
       /\ FacadeStep
    \/ /\ \E v, value \in VHandles, k \in Keys, cond \in Conds :
            V8ValueSetValueByKey(v, k, value, cond)
       /\ FacadeStep
    \/ /\ \E v, value \in VHandles, i \in Indices, cond \in Conds :
            V8ValueSetValueByIndex(v, i, value, cond)
       /\ FacadeStep
    \/ /\ \E v \in VHandles, cond \in Conds : V8ContextIsValid(v, cond)
       /\ FacadeStep
    \/ /\ \E v \in VHandles, cond \in Conds, worker \in BOOLEAN :
            V8ContextGetBrowser(v, cond, worker)
       /\ FacadeStep
    \/ /\ \E v \in VHandles, cond \in Conds, worker \in BOOLEAN :
            V8ContextGetFrame(v, cond, worker)
       /\ FacadeStep
    \/ /\ \E v \in VHandles, g \in VHandles \cup {NULL}, cond \in Conds :
            V8ContextGetGlobal(v, g, cond)
       /\ FacadeStep
    \/ /\ \E v \in VHandles, cond \in Conds : V8ContextEnter(v, cond)
       /\ FacadeStep
    \/ /\ \E v \in VHandles, cond \in Conds : V8ContextExit(v, cond)
       /\ FacadeStep
    \/ /\ \E v, that \in VHandles, cond \in Conds : V8ContextIsSame(v, that, cond)
       /\ FacadeStep

\* The global object written and read: values made, cloned, written under a key
\* or an index, read back, compared and dropped, the foreign side releasing
\* what it was handed.
NextObject ==
    \/ /\ \E v \in VHandles, i \in IntVals : V8ValueCreateInt(v, i)
       /\ UNCHANGED <<avars, xvars>>
    \/ /\ \E v \in VHandles, x \in StrVals : V8ValueCreateString(v, x)
       /\ UNCHANGED <<avars, xvars>>
    \/ /\ \E v \in VHandles : V8ContextGetCurrentContext(v)
       /\ UNCHANGED <<avars, xvars>>
    \/ /\ \E v, g \in VHandles : V8ContextGetGlobal(v, g, "ok")
       /\ UNCHANGED <<avars, xvars>>
    \/ /\ \E v \in VHandles : VClone(v)
       /\ UNCHANGED <<avars, xvars>>
    \/ /\ \E v \in VHandles : VDrop(v)
       /\ UNCHANGED <<avars, xvars>>
    \/ /\ \E v \in VHandles : VForeignRelease(v)
       /\ UNCHANGED <<avars, xvars>>
    \/ /\ \E v, value \in VHandles, k \in Keys, cond \in Conds :
            V8ValueSetValueByKey(v, k, value, cond)
       /\ UNCHANGED <<avars, xvars>>
    \/ /\ \E v, value \in VHandles, i \in Indices, cond \in Conds :
            V8ValueSetValueByIndex(v, i, value, cond)
       /\ UNCHANGED <<avars, xvars>>
    \/ /\ \E v \in VHandles, r \in VHandles \cup {NULL}, k \in Keys, cond \in Conds :
            V8ValueGetValueByKey(v, r, k, cond)
       /\ UNCHANGED <<avars, xvars>>
    \/ /\ \E v \in VHandles, r \in VHandles \cup {NULL}, i \in Indices, cond \in Conds :
            V8ValueGetValueByIndex(v, r, i, cond)
       /\ UNCHANGED <<avars, xvars>>
    \/ /\ \E v \in VHandles, k \in Keys, cond \in Conds :
            V8ValueDeleteValueByKey(v, k, cond)
       /\ UNCHANGED <<avars, xvars>>
    \/ /\ \E v, that \in VHandles, cond \in Conds : V8ValueIsSame(v, that, cond)
       /\ UNCHANGED <<avars, xvars>>

vars == <<avars, fvars, xvars>>

Init == AdapterInit /\ FacadeInit /\ ThreadInit /\ conv = "caller_owns"

\* The adapters: several handles side by side, each made, handed to the foreign
\* engine, called by it and released.
Next ==
    \/ UNCHANGED <<fvars, xvars>> /\ \E h \in Handles, d \in Delegates : RenderProcessHandlerNew(h, d)
    \/ UNCHANGED <<fvars, xvars>> /\ \E h \in Handles, d \in Delegates : V8HandlerNew(h, d)
    \/ UNCHANGED <<fvars, xvars>> /\ \E h \in Handles : Drop(h)
    \/ UNCHANGED <<fvars, xvars>> /\ \E h \in Handles : IntoRaw(h)
    \/ UNCHANGED <<fvars, xvars>> /\ \E h \in Handles : ForeignRelease(h)
    \/ UNCHANGED <<fvars, xvars>> /\ \E h \in Handles : kind[h] = "RenderProcessHandler" /\
            \E ev \in RphSlots : ForeignInvoke(h, ev)
    \/ UNCHANGED <<fvars, xvars>> /\ \E h \in Handles : kind[h] = "V8Handler" /\
            ForeignInvoke(h, "execute")

Spec == Init /\ [][Next]_vars

\* The life of one handle of any kind: every interleaving of native clone and
\* drop, hand-off, foreign add-ref and release, and foreign calls.
OneHandle == {h \in Handles : \A g \in Handles : h <= g}

NextRc ==
    \E h \in OneHandle :
        \/ UNCHANGED <<fvars, xvars>> /\ \E d \in Delegates : RenderProcessHandlerNew(h, d)
        \/ UNCHANGED <<fvars, xvars>> /\ \E d \in Delegates : V8HandlerNew(h, d)
        \/ UNCHANGED <<fvars, xvars>> /\ \E k \in ForeignKinds, n \in 0..MaxStart :
                FromPtrUnchecked(h, k, n)
        \/ UNCHANGED <<fvars, xvars>> /\ Clone(h)
        \/ UNCHANGED <<fvars, xvars>> /\ Drop(h)
        \/ UNCHANGED <<fvars, xvars>> /\ IntoRaw(h)
        \/ UNCHANGED <<fvars, xvars>> /\ ForeignAddRef(h)
        \/ UNCHANGED <<fvars, xvars>> /\ ForeignRelease(h)
        \/ UNCHANGED <<fvars, xvars>> /\ kind[h] = "RenderProcessHandler" /\
                \E ev \in RphSlots : ForeignInvoke(h, ev)
        \/ UNCHANGED <<fvars, xvars>> /\ kind[h] = "V8Handler" /\ ForeignInvoke(h, "execute")

SpecRc == Init /\ [][NextRc]_vars

\* The facade over the engine, the adapters left alone.
SpecFacade == Init /\ [][NextFacade]_vars

\* The global object's properties, the adapters left alone.
SpecObject == Init /\ [][NextObject]_vars

\* Values made by the constructors and read back by the type predicates and
\* the getters, the adapters left alone.
RoundTripInts == {-2147483647, 0, 5, 2147483647}

NextValue ==
    \/ /\ \E v \in VHandles, i \in RoundTripInts : V8ValueCreateInt(v, i)
       /\ UNCHANGED <<avars, xvars>>
    \/ /\ \E v \in VHandles, x \in NativeStrs : V8ValueCreateString(v, x)
       /\ UNCHANGED <<avars, xvars>>
    \/ /\ \E v \in VHandles : VDrop(v)
       /\ UNCHANGED <<avars, xvars>>
    \/ /\ \E op \in (BoolOps \ FlagOps) \cup NumOps \cup StrOps, v \in VHandles,
            cond \in Conds : V8ValueAccessor(op, v, cond)
       /\ UNCHANGED <<avars, xvars>>

SpecValue == Init /\ [][NextValue]_vars

\* One handle shared by the threads, everything else left alone.
NextThreads ==
    \/ UNCHANGED <<avars, fvars>> /\ \E t \in Threads : CloneBegin(t)
    \/ UNCHANGED <<avars, fvars>> /\ \E t \in Threads : CloneAddRef(t)
    \/ UNCHANGED <<avars, fvars>> /\ \E t \in Threads : DropBegin(t)
    \/ UNCHANGED <<avars, fvars>> /\ \E t \in Threads : DropRelease(t)
    \/ UNCHANGED <<avars, fvars>> /\ \E t, u \in Threads : MoveTo(t, u)
    \/ UNCHANGED <<avars, fvars>> /\ \E t \in Threads : TrampolineEnter(t)
    \/ UNCHANGED <<avars, fvars>> /\ \E t \in Threads : TrampolineReturn(t)

SpecThreads == Init /\ [][NextThreads]_vars

\* The engine's convention for handle arguments is not in the binding layer:
\* the specifications below start under either.
InitArgs == AdapterInit /\ FacadeInit /\ ThreadInit /\ conv \in ArgConventions

\* Wrappers made, cloned, dropped and compared, under either convention.
NextArgs ==
    \/ /\ \E v \in VHandles, i \in IntVals : V8ValueCreateInt(v, i)
       /\ FacadeStep
    \/ /\ \E v \in VHandles : V8ContextGetCurrentContext(v)
       /\ FacadeStep
    \/ /\ \E v \in VHandles : VClone(v)
       /\ FacadeStep
    \/ /\ \E v \in VHandles : VDrop(v)
       /\ FacadeStep
    \/ /\ \E v, that \in VHandles, cond \in Conds : V8ValueIsSame(v, that, cond)
       /\ FacadeStep
    \/ /\ \E v, that \in VHandles, cond \in Conds : V8ContextIsSame(v, that, cond)
       /\ FacadeStep

SpecArgs == InitArgs /\ [][NextArgs]_vars

\* A handler made, given to functions and called through them, under either
\* convention.
NextFunction ==
    \E h \in OneHandle :
        \/ UNCHANGED <<fvars, xvars>> /\ \E d \in Delegates : V8HandlerNew(h, d)
        \/ UNCHANGED <<fvars, xvars>> /\ Clone(h)
        \/ UNCHANGED <<fvars, xvars>> /\ Drop(h)
        \/ UNCHANGED xvars /\ \E v \in VHandles : V8ValueCreateFunction(h, v)
        \/ UNCHANGED <<fvars, xvars>> /\ kind[h] = "V8Handler" /\
                ForeignInvoke(h, "execute")
        \/ UNCHANGED <<fvars, xvars>> /\ ForeignRelease(h)
        \/ UNCHANGED <<avars, xvars>> /\ \E v \in VHandles : VDrop(v)

SpecFunction == InitArgs /\ [][NextFunction]_vars

\* ------------------------------------------------- claims on the adapters

\* C1: for a Smart Pointer wrapper of any kind, N clones followed by N+1 drops
\* (the clones and the original) leave the handle's count at the count its
\* other holders had when the original was made; every live Smart Pointer
\* accounts for one unit of the count (no leak), and the handle is not
\* released while a Smart Pointer to it is live (no premature free).
C1_CloneDropBalanced ==
    \A h \in Handles : kind[h] # "none" =>
        /\ rc[h] = held[h] + ptrs[h]
        /\ (ptrs[h] > 0 => ~freed[h])
        /\ (drops[h] = clones[h] + 1 /\ held[h] = start[h] => rc[h] = start[h])

\* Two clones and three drops on a handle the foreign side also holds.
C1_Witness ==
    \E h \in Handles :
        /\ kind[h] \in ForeignKinds
        /\ start[h] > 0
        /\ clones[h] >= 2
        /\ drops[h] = clones[h] + 1
        /\ rc[h] = start[h]

\* C2: the boxed trait object of an adapter handle is destroyed exactly once,
\* in the step in which the handle's count reaches zero and not before, and no
\* trampoline dispatches into a destroyed trait object.
C2_DestroyedOnceAtZero ==
    /\ \A d \in Delegates : destroys[d] <= 1
    /\ \A h \in Handles : kind[h] \in AdapterKinds =>
            /\ (box[slot[h]] = "destroyed") <=> (rc[h] = 0)
            /\ (destroys[slot[h]] = 1) <=> (rc[h] = 0)
    /\ (last.target # NULL => last.live)

\* A handle that was cloned, handed over, called by the foreign side and then
\* released by its last holder.
C2_Witness ==
    \E h \in Handles :
        /\ kind[h] \in AdapterKinds
        /\ clones[h] > 0
        /\ last.h = h
        /\ last.target = slot[h]
        /\ rc[h] = 0
        /\ destroys[slot[h]] = 1

\* C3: a trampoline called with handle h as its receiver dispatches to the
\* trait object that was passed to the new() which produced h.
C3_IdentityRoundTrip ==
    last.target # NULL => last.target = wrappedD[last.h]

\* Two adapter handles held by the foreign side at once, the later one called.
C3_Witness ==
    \E g \in Handles, h \in Handles :
        /\ g < h
        /\ kind[g] \in AdapterKinds /\ kind[h] \in AdapterKinds
        /\ held[g] > 0 /\ held[h] > 0
        /\ last.h = h
        /\ last.target = wrappedD[h]
        /\ wrappedD[g] # wrappedD[h]

\* C4: when the trait method execute returns Err, the trampoline returns 0 to
\* the foreign caller and the process goes on.
C4_ExecuteErrReturnsFalse ==
    (last.ev = "execute" /\ last.result = "Err") =>
        (last.ret = "0" /\ ~crashed)

\* --------------------------------------------------- claims on the facade

\* C5: every V8Context and V8Value accessor called on a handle whose slot for
\* it is null returns the error result, invokes no foreign operation and hands
\* nothing to the foreign side; the error is not the result of an operation
\* that ran and returned false or zero.
C5_NullSlotIsError ==
    flast.cond = "null_slot" =>
        /\ flast.res = ErrRes
        /\ flast.invoked = "none"
        /\ flast.moved = 0
        /\ flast.res.k \notin {"bool", "int", "ptr", "str", "panic"}

C5_Witness ==
    /\ flast.ty = "V8Value"
    /\ flast.op = "set_value_by_key"
    /\ flast.cond = "null_slot"
    /\ flast.res = ErrRes
    /\ flast.decs = 1

\* C6: a pointer-returning facade operation (get_value_by_key,
\* get_value_by_index, get_global, get_browser, get_frame) whose foreign
\* operation returned the null pointer reports failure, never a success
\* carrying a wrapper around the null handle.
C6_NullResultIsFailure == flast.fnull => flast.res.k = "err"

\* C7: every accessor other than is_valid itself, called on a handle that is
\* invalid or off its creating thread, returns the failure result without
\* invoking the forwarded operation and without a defaulted value.
C7_ValidityCheckedAtEntry ==
    (flast.cond = "invalid" /\ flast.op # "is_valid") =>
        (flast.res = ErrRes /\ flast.invoked = "none")

\* C8: a set_value_by_key or set_value_by_index that invokes the foreign set
\* operation makes no native decrement for the wrapper passed in: no count
\* changes, the native side has one wrapper less and the foreign side holds one
\* reference more.
C8_SetTransfersOwnership ==
    [][(/\ flast'.op \in {"set_value_by_key", "set_value_by_index"}
        /\ flast'.invoked # "none")
       => /\ flast'.decs = 0
          /\ flast'.moved = 1
          /\ vrc' = vrc
          /\ SumTo(vown', NumValues) = SumTo(vown, NumValues) - 1
          /\ SumTo(vheld', NumValues) = SumTo(vheld, NumValues) + 1
          /\ \A v \in VHandles : vrc'[v] = vown'[v] + vheld'[v]]_vars

C8_Witness ==
    /\ flast.op = "set_value_by_index"
    /\ flast.invoked = "set_value_byindex"
    /\ flast.res = OkBool(TRUE)
    /\ flast.moved = 1
    /\ \E v \in VHandles : vrc[v] = 2 /\ vown[v] = 1 /\ vheld[v] = 1

\* C9 as stated: set_value_by_key(k, clone of v) on an object o, then
\* get_value_by_key(k) on o yielding r, then r.is_same(v): the answer is true,
\* for any key k.
C9_WriteReadConsistency == flast.chain = "same" => flast.res = OkBool(TRUE)

\* C9 amended: the same, for any key k that does not name a read-only property
\* of o.
C9_WriteReadConsistencyWritable ==
    (flast.chain = "same" /\ flast.ck \notin RoKeys) => flast.res = OkBool(TRUE)

C9_Witness ==
    /\ flast.chain = "same"
    /\ flast.ck = "0"
    /\ vcont[flast.cv].t \in {"int", "string"}
    /\ flast.cr # flast.cv
    /\ prop = vcont[flast.cv]
    /\ flast.res = OkBool(TRUE)

\* C10: the context's depth is the successful enters minus the successful
\* exits and never below zero, and an exit with no unmatched enter before it
\* is reported as a failure, not a success result, and leaves the depth as it
\* was.
C10_DepthAndUnmatchedExit ==
    /\ depth = net
    /\ depth >= 0
    /\ (flast.ty = "V8Context" /\ flast.op = "exit" /\ flast.dbefore = 0) =>
          (flast.res.k = "err" /\ depth = 0)

\* C11: once the last native wrapper of a V8Context has been dropped, every
\* successful enter() has been matched by an exit(): no state has a context
\* without a native wrapper and a non-zero number of unmatched enters.
C11_EntersMatchedAtLastDrop ==
    (\A v \in VHandles : ~(vcont[v] = Ctx /\ vown[v] > 0)) => net = 0

C13_ConstructorGetterRoundTrip ==
    [][\A v \in VHandles :
        /\ \A n \in RoundTripInts :
              /\ V8ValueCreateInt(v, n) =>
                    (vcont'[v] = IntC(n) /\ flast'.res = OkPtr(v))
              /\ (vcont[v] = IntC(n) /\ vown[v] > 0) =>
                    /\ V8ValueAccessor("get_int_value", v, "ok") =>
                          flast'.res = OkInt(n)
                    /\ V8ValueAccessor("is_int", v, "ok") =>
                          flast'.res = OkBool(TRUE)
                    /\ V8ValueAccessor("is_string", v, "ok") =>
                          flast'.res = OkBool(FALSE)
                    /\ V8ValueAccessor("is_bool", v, "ok") =>
                          flast'.res = OkBool(FALSE)
        /\ \A x \in NativeStrs :
              /\ V8ValueCreateString(v, x) =>
                    (vcont'[v] = StrC(x) /\ flast'.res = OkPtr(v))
              /\ (vcont[v] = StrC(x) /\ vown[v] > 0) =>
                    (V8ValueAccessor("get_string_value", v, "ok") =>
                          flast'.res = OkStr(x))]_vars

\* A string outside the basic plane has been made and read back, next to the
\* largest int.
C13_Witness ==
    /\ flast.op = "accessor"
    /\ flast.cond = "ok"
    /\ flast.res = OkStr("hwair")
    /\ \E v, w \in VHandles :
          /\ vcont[v] = StrC("hwair")
          /\ vcont[w] = IntC(2147483647)
          /\ vown[v] > 0

\* C14: the table of a render process handler has one trampoline per method
\* of the trait (on_web_kit_initialized, on_browser_created,
\* on_browser_destroyed, on_context_created): a foreign event of one of these
\* kinds on the handle is one call of the corresponding method of the wrapped
\* delegate.
C14_OneTrampolinePerTraitMethod ==
    last.ev \in RphTraitMethods =>
        /\ last.target # NULL
        /\ last.target \in Delegates
        /\ last.ret # "default"

\* C15: the argument handles of a trampoline (browser, frame, context,
\* extra_info; object in execute) are borrowed: when the trait method keeps
\* nothing, the count of every argument handle after the trampoline returns is
\* its count at entry.
C15_ArgumentsBorrowed ==
    [][\A h \in {g \in Handles : slot[g] \in Delegates /\ held[g] > 0} :
        (\/ \E b \in 1..MaxArgRc, e \in {NULL} \cup 1..MaxArgRc :
                COnBrowserCreated(h, b, e, FALSE)
         \/ \E b \in 1..MaxArgRc, f \in 1..MaxArgRc, c \in 1..MaxArgRc :
                OnContextCreated(h, b, f, c, FALSE)
         \/ \E o \in 1..MaxArgRc, r \in ExecuteResults, out \in PanicOutcomes :
                V8HandlerExecute(h, o, r, FALSE, out))
        => \A i \in DOMAIN last'.args :
              last'.args[i].after = last'.args[i].before]_vars

\* C16: when two or more threads clone and drop Smart Pointers to the same
\* handle, add-ref and release it, at the same time, no update of the count is
\* lost: the count is the number of live owners, and the handle is released
\* exactly once, by the thread that drops the last reference.
C16_NoLostUpdate ==
    /\ trc = SumTo(town, NumThreads)
    /\ tdestroys <= 1
    /\ (tdestroys = 1) <=> (trc = 0)
    /\ trc >= 0

\* Two threads are inside a clone and a drop of the handle at the same time.
C16_Witness ==
    /\ \E t, u \in Threads : t # u /\ tpc[t] = "add_ref" /\ tpc[u] = "release"
    /\ trc = 2
    /\ tdestroys = 0

\* C19: a trampoline has exclusive mutable access to the delegate: when the
\* engine calls trampolines of one handle from more than one thread, or
\* re-entrantly, no two invocations run methods of the same boxed trait object
\* at the same time.
C19_ExclusiveDelegateAccess == SumTo(tnest, NumThreads) <= 1

\* C18: is_same leaves the counts of the receiver and of the argument as the
\* caller left them: V8Value::is_same(&that) passes that.as_ptr() and the
\* caller gives up nothing, V8Context::is_same(that) takes that by value and
\* passes that.into_raw(), and in either case the decrements made on `that`,
\* by the native and the foreign side together, are as many as the references
\* the caller gave up: `that` is not leaked, and not released while the caller
\* still holds a wrapper.
C18_IsSameCountNeutral ==
    /\ (flast.ty = "V8Value" /\ flast.op = "is_same") =>
          flast.decs + flast.fdecs = 0
    /\ (flast.ty = "V8Context" /\ flast.op = "is_same") =>
          flast.decs + flast.fdecs = 1
    /\ \A v \in VHandles : vown[v] > 0 => vrc[v] >= vown[v]

\* C17: a V8Handler passed to V8Value::create_function stays alive for as
\* long as the function can be called: once create_function has returned and
\* the wrapper it took by value is gone, the handler's count is still at least
\* one on behalf of the function, its boxed trait object has not been
\* destroyed, and a later call of the function reaches execute on a live
\* delegate.
C17_HandlerOutlivesFunction ==
    /\ \A h \in Handles :
          (kind[h] = "V8Handler" /\ held[h] > 0) =>
              /\ rc[h] >= 1
              /\ ~freed[h]
              /\ box[slot[h]] = "boxed"
    /\ last.ev = "execute" => last.live

====
